---- MODULE Spec2Model ----
(***************************************************************************)
(* Daily Reflection: the annotation segmentation engine buildSegments of   *)
(* src/src/App.tsx and the submit flow of the App component around it.     *)
(*                                                                         *)
(* A text is a sequence of one-character strings.  An Issue is a record    *)
(* [id, type, start, end, tip]; id is the position of the object in the    *)
(* issues array and stands for the object's reference identity (the code   *)
(* compares issues with !==).  An absent tip (undefined) is NoTip.         *)
(***************************************************************************)
EXTENDS Integers, Sequences, FiniteSets, TLC

\* ---------------------------------------------------------------- bounds
MaxLen == 3
MaxIssues == 2
MaxSentences == 3
MinIdx == 0 - 1
MaxIdx == MaxLen
MaxOpen == MaxIssues + 1

\* ------------------------------------------------------- types & helpers
IssueType == {"spell", "grammar", "clarity", "structure"}

NoTip == "<undefined>"

Min(a, b) == IF a < b THEN a ELSE b

Max(a, b) == IF a > b THEN a ELSE b

\* Number(true) = 1, Number(false) = 0
Number(b) == IF b THEN 1 ELSE 0

\* String.prototype.slice(from, to): negative arguments count from the end,
\* both are clamped into [0, length], an empty range yields "".
sliceFrom(len, k) == IF k < 0 THEN Max(len + k, 0) ELSE Min(k, len)

slice(s, from, to) ==
  LET f == sliceFrom(Len(s), from)
      t == sliceFrom(Len(s), to)
  IN  IF f < t THEN SubSeq(s, f + 1, t) ELSE <<>>

\* for (const it of issues) { markers.push(open); markers.push(close) }
RECURSIVE pushMarkers(_)
pushMarkers(iss) ==
  IF iss = <<>> THEN <<>>
  ELSE << [idx |-> Head(iss).start, issue |-> Head(iss), open |-> TRUE],
          [idx |-> Head(iss).end,   issue |-> Head(iss), open |-> FALSE] >>
       \o pushMarkers(Tail(iss))

\* Variant of compare without the tie-break: positions only.
compareIdxOnly(a, b) == a.idx - b.idx

\* Variant of compare with the tie-break reversed: closes before opens.
compareCloseFirst(a, b) ==
  IF a.idx - b.idx # 0 THEN a.idx - b.idx
  ELSE Number(a.open) - Number(b.open)

\* (a, b) => a.idx - b.idx || Number(b.open) - Number(a.open)
compare(a, b) ==
  IF a.idx - b.idx # 0 THEN a.idx - b.idx
  ELSE Number(b.open) - Number(a.open)

\* Array.prototype.sort is stable: an element goes after every element that
\* does not compare greater than it.
RECURSIVE insertSorted(_, _)
insertSorted(sorted, m) ==
  IF sorted = <<>> THEN <<m>>
  ELSE IF compare(Head(sorted), m) <= 0
       THEN <<Head(sorted)>> \o insertSorted(Tail(sorted), m)
       ELSE <<m>> \o sorted

RECURSIVE sortMarkers(_)
sortMarkers(ms) ==
  IF ms = <<>> THEN <<>>
  ELSE insertSorted(sortMarkers(SubSeq(ms, 1, Len(ms) - 1)), ms[Len(ms)])

\* Variant of activeType reading the bottom of the stack: outermost wins.
activeTypeOutermost(stack) == IF stack = <<>> THEN "plain" ELSE stack[1].type

\* const active = stack[stack.length - 1]; type / tip of the segment
activeType(stack) == IF stack = <<>> THEN "plain" ELSE stack[Len(stack)].type

activeTip(stack) == IF stack = <<>> THEN NoTip ELSE stack[Len(stack)].tip

\* Variant of removeIssue with stack discipline: a close pops the top.
removeIssuePop(stack, issue) ==
  IF stack = <<>> THEN stack ELSE SubSeq(stack, 1, Len(stack) - 1)

\* stack.filter((x) => x !== m.issue)
removeIssue(stack, issue) == SelectSeq(stack, LAMBDA x : x.id # issue.id)

\* Variant of stepMarker that pushes the segment and leaves the cursor.
stepMarkerNoAdvance(txt, st, m) ==
  LET emit == m.idx > st.cursor
  IN  [segs |-> IF emit
                THEN Append(st.segs, [text |-> slice(txt, st.cursor, m.idx),
                                      type |-> activeType(st.stack),
                                      tip  |-> activeTip(st.stack)])
                ELSE st.segs,
       cursor |-> st.cursor,
       stack |-> IF m.open THEN Append(st.stack, m.issue)
                 ELSE removeIssue(st.stack, m.issue)]

\* Variant of stepMarker in which the markers of a zero-width issue push
\* no segment.
stepMarkerSkipDegenerate(txt, st, m) ==
  LET emit == m.idx > st.cursor /\ m.issue.start # m.issue.end
  IN  [segs |-> IF emit
                THEN Append(st.segs, [text |-> slice(txt, st.cursor, m.idx),
                                      type |-> activeType(st.stack),
                                      tip  |-> activeTip(st.stack)])
                ELSE st.segs,
       cursor |-> IF emit THEN m.idx ELSE st.cursor,
       stack |-> IF m.open THEN Append(st.stack, m.issue)
                 ELSE removeIssue(st.stack, m.issue)]

\* One iteration of "for (const m of markers)" on the locals
\* st = [segs, cursor, stack].
stepMarker(txt, st, m) ==
  LET emit == m.idx > st.cursor
      segs1 == IF emit
               THEN Append(st.segs, [text |-> slice(txt, st.cursor, m.idx),
                                     type |-> activeType(st.stack),
                                     tip  |-> activeTip(st.stack)])
               ELSE st.segs
      cursor1 == IF emit THEN m.idx ELSE st.cursor
      stack1 == IF m.open THEN Append(st.stack, m.issue)
                ELSE removeIssue(st.stack, m.issue)
  IN  [segs |-> segs1, cursor |-> cursor1, stack |-> stack1]

\* if (cursor < text.length) segs.push({ text: text.slice(cursor), ... })
remainder(txt, st) ==
  IF st.cursor < Len(txt)
  THEN [st EXCEPT !.segs = Append(st.segs,
                     [text |-> slice(txt, st.cursor, Len(txt)),
                      type |-> activeType(st.stack),
                      tip  |-> activeTip(st.stack)])]
  ELSE st

RECURSIVE sweep(_, _, _)
sweep(txt, st, ms) ==
  IF ms = <<>> THEN st ELSE sweep(txt, stepMarker(txt, st, Head(ms)), Tail(ms))

\* The whole function, as one value.
buildSegments(txt, iss) ==
  remainder(txt,
            sweep(txt, [segs |-> <<>>, cursor |-> 0, stack |-> <<>>],
                  sortMarkers(pushMarkers(iss)))).segs

\* ------------------------------------------------------------- inputs
\* The engine never inspects a character, so a text of pairwise distinct
\* characters shows every loss, duplication and reordering.
Letters == <<"a", "b", "c", "d", "e", "f", "g", "h">>

Texts == { SubSeq(Letters, 1, n) : n \in 0..MaxLen }

Idx == MinIdx..MaxIdx

\* The engine only copies type and tip, so giving the k-th issue object its
\* own (type, tip) pair makes every mix-up of two objects visible.
Palette == << [type |-> "grammar",   tip |-> "tip1"],
              [type |-> "clarity",   tip |-> NoTip],
              [type |-> "spell",     tip |-> "tip3"],
              [type |-> "structure", tip |-> "tip4"] >>

mkIssue(k, s, e) ==
  [id |-> k, type |-> Palette[((k - 1) % 4) + 1].type, start |-> s, end |-> e,
   tip |-> Palette[((k - 1) % 4) + 1].tip]

IssueLists ==
  UNION { { [k \in 1..n |-> mkIssue(k, r[k][1], r[k][2])] :
              r \in [1..n -> Idx \X Idx] } : n \in 0..MaxIssues }

\* start and end of an issue that lies in a text and covers a part of it
Spans(txt) ==
  { p \in (0..Len(txt)) \X (0..Len(txt)) : p[1] < p[2] }

\* MaxOpen issues over txt, each covering a part of it: enough of them for a
\* close to leave more than one issue on the stack
OpenLists(txt) ==
  { [k \in 1..MaxOpen |-> mkIssue(k, r[k][1], r[k][2])] :
      r \in [1..MaxOpen -> Spans(txt)] }

\* ------------------------------------------------- the App component
minSentences == 3

Null == [null |-> TRUE]

NoError == "<null>"

demoNotice ==
  "Using demo feedback because the server endpoint is not available. Wire /api/evaluate to OpenAI when you deploy."

\* A text is a sequence of characters. A character is written as itself, and
\* one that a TLA+ string cannot hold is written as its JavaScript escape:
\* "\\u2028" is the one character U+2028.
\*
\* White space of JavaScript, the class \s of a regular expression and what
\* trim() removes: TAB, LF, VT, FF, CR, SP, U+00A0, U+1680, U+2000..U+200A,
\* U+2028, U+2029, U+202F, U+205F, U+3000, U+FEFF. VT, U+00A0, U+1680 and
\* U+FEFF stand in the second line as themselves, and all of them by escape.
WhiteSpace ==
  { " ", "\t", "\n", "\f", "\r",
     "", " ", " ", "﻿",
     "\\u000b", "\\u00a0", "\\u1680", "\\u2000", "\\u2001",
     "\\u2002", "\\u2003", "\\u2004", "\\u2005", "\\u2006",
     "\\u2007", "\\u2008", "\\u2009", "\\u200a", "\\u2028",
     "\\u2029", "\\u202f", "\\u205f", "\\u3000", "\\ufeff" }

isSpace(c) == c \in WhiteSpace

UpperCase == <<"A", "B", "C", "D", "E", "F", "G", "H", "I", "J", "K", "L", "M",
               "N", "O", "P", "Q", "R", "S", "T", "U", "V", "W", "X", "Y", "Z">>

LowerCase == <<"a", "b", "c", "d", "e", "f", "g", "h", "i", "j", "k", "l", "m",
               "n", "o", "p", "q", "r", "s", "t", "u", "v", "w", "x", "y", "z">>

\* \w of a regular expression
isWord(c) ==
  \/ \E k \in 1..26 : c = UpperCase[k] \/ c = LowerCase[k]
  \/ c \in {"0", "1", "2", "3", "4", "5", "6", "7", "8", "9", "_"}

\* the /i flag: letters compare by their lower case
lower(c) ==
  IF \E k \in 1..26 : c = UpperCase[k]
  THEN LowerCase[CHOOSE k \in 1..26 : c = UpperCase[k]]
  ELSE c

\* \b between offsets k-1 and k of s, next to a word character on one side
wordStartAt(s, k) == k = 0 \/ ~isWord(s[k])

wordEndAt(s, k) == k = Len(s) \/ ~isWord(s[k + 1])

\* text.replace(/\s+/g, " "): every run of white space becomes one blank
RECURSIVE collapseSpaces(_)
collapseSpaces(s) ==
  IF s = <<>> THEN <<>>
  ELSE IF isSpace(Head(s))
       THEN IF Len(s) > 1 /\ isSpace(s[2]) THEN collapseSpaces(Tail(s))
            ELSE <<" ">> \o collapseSpaces(Tail(s))
       ELSE <<Head(s)>> \o collapseSpaces(Tail(s))

RECURSIVE trimStart(_)
trimStart(s) ==
  IF s # <<>> /\ isSpace(Head(s)) THEN trimStart(Tail(s)) ELSE s

RECURSIVE trimEnd(_)
trimEnd(s) ==
  IF s # <<>> /\ isSpace(s[Len(s)]) THEN trimEnd(SubSeq(s, 1, Len(s) - 1)) ELSE s

trim(s) == trimEnd(trimStart(s))

isTerminator(c) == c \in {".", "!", "?"}

\* number of white-space characters from offset k on: what \s+ takes
spaceRun(s, k) ==
  IF k >= Len(s) THEN 0
  ELSE CHOOSE n \in 0..(Len(s) - k) :
         /\ \A j \in 1..n : isSpace(s[k + j])
         /\ (k + n = Len(s) \/ ~isSpace(s[k + n + 1]))

\* number of terminators from offset k on: what [.!?]+ takes
terminatorRun(s, k) ==
  IF k >= Len(s) THEN 0
  ELSE CHOOSE n \in 0..(Len(s) - k) :
         /\ \A j \in 1..n : isTerminator(s[k + j])
         /\ (k + n = Len(s) \/ ~isTerminator(s[k + n + 1]))

\* length of the match of /[.!?]+\s+/ that begins at offset k, or 0
separatorAt(s, k) ==
  LET dots == terminatorRun(s, k)
      blanks == spaceRun(s, k + dots)
  IN  IF dots > 0 /\ blanks > 0 THEN dots + blanks ELSE 0

\* s.split(/[.!?]+\s+/): cur is the piece being read
RECURSIVE splitSentences(_, _, _)
splitSentences(s, k, cur) ==
  IF k >= Len(s) THEN <<cur>>
  ELSE IF separatorAt(s, k) > 0
       THEN <<cur>> \o splitSentences(s, k + separatorAt(s, k), <<>>)
       ELSE splitSentences(s, k + 1, Append(cur, s[k + 1]))

\* the useMemo of lines 22-29
sentenceCount(txt) ==
  LET nonEmpty(piece) == piece # <<>>
      s == SelectSeq(splitSentences(trim(collapseSpaces(txt)), 0, <<>>), nonEmpty)
  IN  IF Len(s) = 1 /\ s[1] = <<>> THEN 0 ELSE Len(s)

\* text.indexOf(".")
indexOfPeriod(s) ==
  IF \E k \in 1..Len(s) : s[k] = "."
  THEN (CHOOSE k \in 1..Len(s) : s[k] = "." /\ \A j \in 1..(k - 1) : s[j] # ".") - 1
  ELSE 0 - 1

\* the characters of s from offset k on spell word, whatever their case
spellsAt(s, k, word) ==
  /\ k + Len(word) <= Len(s)
  /\ \A j \in 1..Len(word) : lower(s[k + j]) = word[j]

\* length of the match of /\bi\s+was\b/i that begins at offset k, or 0
iWasAt(s, k) ==
  LET blanks == spaceRun(s, k + 1)
      len == 1 + blanks + 3
  IN  IF /\ wordStartAt(s, k)
         /\ spellsAt(s, k, <<"i">>)
         /\ blanks > 0
         /\ spellsAt(s, k + 1 + blanks, <<"w", "a", "s">>)
         /\ wordEndAt(s, k + len)
      THEN len ELSE 0

\* length of the match of /\bteh\b/i that begins at offset k, or 0
tehAt(s, k) ==
  IF wordStartAt(s, k) /\ spellsAt(s, k, <<"t", "e", "h">>) /\ wordEndAt(s, k + 3)
  THEN 3 ELSE 0

\* text.match(/\bi\s+was\b/i): the offset of the leftmost match, or -1
firstIWas(s) ==
  IF \E k \in 0..(Len(s) - 1) : iWasAt(s, k) > 0
  THEN CHOOSE k \in 0..(Len(s) - 1) :
         iWasAt(s, k) > 0 /\ \A j \in 0..(k - 1) : iWasAt(s, j) = 0
  ELSE 0 - 1

\* text.match(/\bteh\b/i): the offset of the leftmost match, or -1
firstTeh(s) ==
  IF \E k \in 0..(Len(s) - 1) : tehAt(s, k) > 0
  THEN CHOOSE k \in 0..(Len(s) - 1) :
         tehAt(s, k) > 0 /\ \A j \in 0..(k - 1) : tehAt(s, j) = 0
  ELSE 0 - 1

\* issues.push(...): the new object gets the next identity
pushIssue(iss, type, start, end, tip) ==
  Append(iss, [id |-> Len(iss) + 1, type |-> type, start |-> start,
               end |-> end, tip |-> tip])

mockTips ==
  << [title |-> "Connect what happened to how you felt",
      why |-> "Connecting events to feelings makes your story easier to understand.",
      examples |-> << [before |-> "I finished my homework.",
                       after |-> "I finished my homework, and I felt proud because it was hard."] >>] >>

\* text.split(/(?<=[.!?])/)[0]: the text up to and with its first terminator
firstChunk(s) ==
  IF \E k \in 1..Len(s) : isTerminator(s[k])
  THEN SubSeq(s, 1, CHOOSE k \in 1..Len(s) :
                      isTerminator(s[k]) /\ \A j \in 1..(k - 1) : ~isTerminator(s[j]))
  ELSE s

mockExample(txt) ==
  [before |-> IF firstChunk(txt) # <<>> THEN firstChunk(txt)
              ELSE <<"t", "o", "d", "a", "y", " ", "i", " ", "w", "a", "s", " ",
                     "t", "i", "r", "e", "d", " ", "b", "u", "t", " ", "i", " ",
                     "s", "t", "u", "d", "y">>,
   afterParts |-> << [text |-> "Today ", bold |-> FALSE],
                     [text |-> "I", bold |-> TRUE],
                     [text |-> " felt tired, but I finished science and ", bold |-> FALSE],
                     [text |-> "I", bold |-> TRUE],
                     [text |-> " will review vocab after dinner.", bold |-> FALSE] >>]

\* lines 339-376; the quotes of the two tips are U+2018 and U+2019, written by
\* their escapes
mockEvaluate(txt) ==
  LET firstPeriod == Max(0, indexOfPeriod(txt))
      m1 == firstIWas(txt)
      is1 == IF m1 >= 0
             THEN pushIssue(<<>>, "grammar", m1, m1 + iWasAt(txt, m1), "Capitalize \\u2018I\\u2019.")
             ELSE <<>>
      m2 == firstTeh(txt)
      is2 == IF m2 >= 0
             THEN pushIssue(is1, "spell", m2, m2 + tehAt(txt, m2), "Spelling: \\u2018the\\u2019.")
             ELSE is1
      is3 == IF firstPeriod = 0 - 1 /\ Len(txt) > 0
             THEN pushIssue(is2, "clarity", 0, Min(60, Len(txt)), "Add clear sentence breaks.")
             ELSE is2
  IN  [issues |-> is3, topTips |-> mockTips, example |-> mockExample(txt)]

\* an object with the fields EvalResult requires
hasShape(res) == res # Null /\ {"issues", "topTips"} \subseteq DOMAIN res

\* line 124: result?.issues ?? []
propsIssues(res) ==
  IF res = Null \/ "issues" \notin DOMAIN res THEN <<>> ELSE res.issues

\* line 133: result.topTips.length throws when result is an object without
\* topTips
renderThrows(res) == res # Null /\ "topTips" \notin DOMAIN res

\* lines 203-213: OriginalPreview calls the engine unless the text is empty
previewSegments(txt, res) ==
  IF renderThrows(res) \/ txt = <<>> THEN <<>>
  ELSE buildSegments(txt, propsIssues(res))

\* --------------------------------------------------- the upstream side
NoResponse == [kind |-> "none"]

Rejected == [kind |-> "rejected"]

EmptyObject == [x \in {} |-> 0]

\* What the language model may answer for a text, within the JSON schema.
ModelAnswers(txt) ==
  { [issues |-> <<>>, topTips |-> <<>>],
    [issues |-> pushIssue(<<>>, "clarity", 0, Len(txt), NoTip), topTips |-> mockTips] }

\* What fetch may resolve to: the handler's 500, a 200 that is no JSON (the
\* page of a host without the function), the handler's 200 with the "{}" it
\* falls back to, and its 200 with the model's answer.
Responses(txt) ==
  { [kind |-> "response", ok |-> FALSE, json |-> TRUE,
     data |-> [error |-> "Evaluation failed."]],
    [kind |-> "response", ok |-> TRUE, json |-> FALSE, data |-> EmptyObject],
    [kind |-> "response", ok |-> TRUE, json |-> TRUE, data |-> EmptyObject] }
  \cup { [kind |-> "response", ok |-> TRUE, json |-> TRUE, data |-> d] :
           d \in ModelAnswers(txt) }

\* What the user may have in the textarea: up to MaxSentences sentences.
Sentences == { <<"i", " ", "w", "a", "s">>, <<"T", "e", "h">>, <<"o", "k">> }

RECURSIVE joinSentences(_)
joinSentences(ss) ==
  IF ss = <<>> THEN <<>>
  ELSE IF Len(ss) = 1 THEN Head(ss)
       ELSE Head(ss) \o <<".", " ">> \o joinSentences(Tail(ss))

UITexts ==
  UNION { { joinSentences(ss) : ss \in [1..n -> Sentences] } : n \in 0..MaxSentences }

\* -------------------------------------------------------------- state
\* text, issues: the arguments of buildSegments (in the App, its text state
\* and the issues it hands to OriginalPreview); markers, i, segs, cursor,
\* stack: the locals of buildSegments; pc: its position.
\* app: the other state of App (submitting, mode, result, error) and
\* crashed, set when a render has thrown.
\* call: the running onSubmit: at, its position; text, the text its closure
\* holds; r, the response it got.
VARIABLES text, issues, markers, i, segs, cursor, stack, pc, app, call

engineVars == <<markers, i, cursor, stack, pc>>

appVars == <<app, call>>

vars == <<text, issues, segs, engineVars, appVars>>

AppInit ==
  /\ app = [submitting |-> FALSE, mode |-> "overview", result |-> Null,
            error |-> NoError, crashed |-> FALSE]
  /\ call = [at |-> "idle", text |-> <<>>, r |-> NoResponse]

Init ==
  /\ text \in Texts
  /\ issues \in IssueLists \cup OpenLists(text)
  /\ markers = <<>>
  /\ i = 1
  /\ segs = <<>>
  /\ cursor = 0
  /\ stack = <<>>
  /\ pc = "markers"
  /\ AppInit

\* lines 308-313: build the markers and sort them
BuildMarkers ==
  /\ pc = "markers"
  /\ markers' = sortMarkers(pushMarkers(issues))
  /\ i' = 1
  /\ pc' = "sweep"
  /\ UNCHANGED <<text, issues, segs, cursor, stack, appVars>>

\* lines 318-329: one iteration of the loop over the markers
Sweep ==
  /\ pc = "sweep"
  /\ i <= Len(markers)
  /\ LET st == stepMarker(text, [segs |-> segs, cursor |-> cursor, stack |-> stack],
                          markers[i])
     IN  /\ segs' = st.segs
         /\ cursor' = st.cursor
         /\ stack' = st.stack
  /\ i' = i + 1
  /\ UNCHANGED <<text, issues, markers, pc, appVars>>

\* lines 330-336: the remainder and the return
Remainder ==
  /\ pc = "sweep"
  /\ i > Len(markers)
  /\ segs' = remainder(text, [segs |-> segs, cursor |-> cursor, stack |-> stack]).segs
  /\ pc' = "done"
  /\ UNCHANGED <<text, issues, markers, i, cursor, stack, appVars>>

Next == BuildMarkers \/ Sweep \/ Remainder

Spec == Init /\ [][Next]_vars

\* ---------------------------------------------------- the App's actions
\* The state after the first render of App.
InitApp ==
  /\ text = <<>>
  /\ issues = <<>>
  /\ segs = <<>>
  /\ markers = <<>>
  /\ i = 1
  /\ cursor = 0
  /\ stack = <<>>
  /\ pc = "idle"
  /\ AppInit

\* Every state update is followed by a render: it throws at line 133, or
\* OriginalPreview gets the text and the issues and shows the segments.
thenRender(a) == [a EXCEPT !.crashed = renderThrows(a.result)]

Render ==
  /\ issues' = propsIssues(app'.result)
  /\ segs' = previewSegments(text', app'.result)

\* line 94: onChange of the textarea
SetText ==
  /\ ~app.crashed
  /\ \E t \in UITexts : text' = t
  /\ app' = thenRender(app)
  /\ UNCHANGED <<call, engineVars>>
  /\ Render

\* line 185: the mode buttons
SetMode ==
  /\ ~app.crashed
  /\ \E m \in {"overview", "focus"} : app' = thenRender([app EXCEPT !.mode = m])
  /\ UNCHANGED <<text, call, engineVars>>
  /\ Render

\* lines 31-46: the submit button is enabled (line 109); onSubmit runs up to
\* its await of fetch
Submit ==
  /\ ~app.crashed
  /\ ~app.submitting
  /\ sentenceCount(text) >= minSentences
  /\ app' = thenRender([app EXCEPT !.error = NoError, !.submitting = TRUE,
                                    !.result = Null])
  /\ call' = [at |-> "fetch", text |-> text, r |-> NoResponse]
  /\ UNCHANGED <<text, engineVars>>
  /\ Render

\* lines 50-59: the catch block and the finally block
Fallback(resp) ==
  /\ app' = thenRender([app EXCEPT !.result = mockEvaluate(call.text),
                                    !.error = demoNotice, !.submitting = FALSE])
  /\ call' = [call EXCEPT !.at = "idle", !.r = resp]

\* line 37 throws: the request never got an answer
FetchRejects ==
  /\ ~app.crashed
  /\ call.at = "fetch"
  /\ Fallback(Rejected)
  /\ UNCHANGED <<text, engineVars>>
  /\ Render

\* lines 37-48: fetch resolves; a status that is not ok throws, otherwise
\* onSubmit awaits r.json()
FetchResolves ==
  /\ ~app.crashed
  /\ call.at = "fetch"
  /\ \E resp \in Responses(call.text) :
       IF ~resp.ok
       THEN Fallback(resp)
       ELSE /\ call' = [call EXCEPT !.at = "json", !.r = resp]
            /\ app' = thenRender(app)
  /\ UNCHANGED <<text, engineVars>>
  /\ Render

\* lines 48-49 and 57-59: r.json() rejects on a body that is no JSON,
\* otherwise whatever it parsed becomes the result
JsonSettles ==
  /\ ~app.crashed
  /\ call.at = "json"
  /\ IF ~call.r.json
     THEN Fallback(call.r)
     ELSE /\ app' = thenRender([app EXCEPT !.result = call.r.data,
                                         !.submitting = FALSE])
          /\ call' = [call EXCEPT !.at = "idle"]
  /\ UNCHANGED <<text, engineVars>>
  /\ Render

NextApp ==
  SetText \/ SetMode \/ Submit \/ FetchRejects \/ FetchResolves \/ JsonSettles

SpecApp == InitApp /\ [][NextApp]_vars

\* ------------------------------------------------ reading the output
RECURSIVE concatTexts(_)
concatTexts(ss) ==
  IF ss = <<>> THEN <<>> ELSE Head(ss).text \o concatTexts(Tail(ss))

\* The (type, tip) every character of the output is rendered with.
RECURSIVE charTags(_)
charTags(ss) ==
  IF ss = <<>> THEN <<>>
  ELSE [k \in 1..Len(Head(ss).text) |-> [type |-> Head(ss).type, tip |-> Head(ss).tip]]
       \o charTags(Tail(ss))

\* Offset at which the k-th segment begins: the length of the text before it.
segBegin(ss, k) == Len(concatTexts(SubSeq(ss, 1, k - 1)))

segEnd(ss, k) == Len(concatTexts(SubSeq(ss, 1, k)))

boundaries(ss) ==
  { segBegin(ss, k) : k \in 1..Len(ss) } \cup { segEnd(ss, k) : k \in 1..Len(ss) }

clamp(len, k) == Max(0, Min(k, len))

tagOf(issue) == [type |-> issue.type, tip |-> issue.tip]

plainTag == [type |-> "plain", tip |-> NoTip]

Range(f) == { f[k] : k \in DOMAIN f }

inRange(len, issue) ==
  0 <= issue.start /\ issue.start <= issue.end /\ issue.end <= len

\* The issue is open while the sweep crosses the character at offset x.
openAt(issue, x) ==
  issue.start <= x /\ ~(issue.start <= issue.end /\ issue.end <= x)

\* No issue other than a and b is open at offset x.
onlyOpen(a, b, x) ==
  \A c \in Range(issues) : c.id \in {a.id, b.id} \/ ~openAt(c, x)

\* the issues array without its k-th object
without(iss, k) == SubSeq(iss, 1, k - 1) \o SubSeq(iss, k + 1, Len(iss))

\* ------------------------------------------------------------- claims

\* C1: when buildSegments returns, the texts of its segments, concatenated in
\* output order, are exactly the input text, for any integer starts and ends.
C1_Reconstruction == pc = "done" => concatTexts(segs) = text

\* C1 witness: the function has returned at least two non-empty segments
\* for two crossing issues, one of which ends beyond the text.
C1_Witness ==
  /\ pc = "done"
  /\ Len(text) >= 2
  /\ Len(segs) >= 2
  /\ segs[1].text # <<>> /\ segs[2].text # <<>>
  /\ \E a, b \in Range(issues) :
       a.start < b.start /\ b.start < a.end /\ a.end < b.end /\ b.end > Len(text)

\* C2: no segment of the output has an empty text.
C2_NoEmptySegment == \A k \in 1..Len(segs) : Len(segs[k].text) >= 1

\* b's range lies inside a's range, and is not the whole of it
nestedIn(b, a) ==
  /\ a.id # b.id
  /\ a.start <= b.start /\ b.start < b.end /\ b.end <= a.end
  /\ (a.start # b.start \/ a.end # b.end)

\* a's open marker is processed before b's: the lower start, or at the same
\* start the object that comes first in the issues array.
opensBefore(a, b) == a.start < b.start \/ (a.start = b.start /\ a.id < b.id)

\* With b nested in a and no third issue open: inside b every character
\* carries b's type and tip, in the rest of a it carries a's.
innermostShown(a, b) ==
  \A x \in 0..(Len(text) - 1) :
    onlyOpen(a, b, x) =>
      /\ (b.start <= x /\ x < b.end) => charTags(segs)[x + 1] = tagOf(b)
      /\ (a.start <= x /\ x < a.end /\ ~(b.start <= x /\ x < b.end))
           => charTags(segs)[x + 1] = tagOf(a)

\* C3 as stated: innermost wins for every nested pair, whatever the order of
\* the two issues in the input.
C3_InnermostWinsAnyOrder ==
  pc = "done" =>
    \A a, b \in Range(issues) : nestedIn(b, a) => innermostShown(a, b)

\* C3 amended: innermost wins for a nested pair when the outer issue opens
\* first (it starts earlier, or both start together and the outer one comes
\* first in the input); the input order does not matter when the starts differ.
C3_InnermostWinsWhenOuterOpensFirst ==
  pc = "done" =>
    \A a, b \in Range(issues) :
      (nestedIn(b, a) /\ opensBefore(a, b)) => innermostShown(a, b)

\* C3 witness: the inner issue comes first in the input, starts strictly
\* inside the outer one, and the output is outer, inner, outer.
C3_Witness ==
  /\ pc = "done"
  /\ Len(issues) = 2
  /\ nestedIn(issues[1], issues[2])
  /\ issues[2].start = 0 /\ issues[1].start > 0
  /\ issues[1].end < issues[2].end /\ issues[2].end <= Len(text)
  /\ Len(segs) = 3
  /\ segs[1].type = issues[2].type
  /\ segs[2].type = issues[1].type
  /\ segs[3].type = issues[2].type

\* a and b cross: b opens inside a and closes after it
crossing(a, b) == a.start < b.start /\ b.start < a.end /\ a.end < b.end

posIn(s, e) == CHOOSE k \in 1..Len(s) : s[k] = e

\* processing the close marker of an issue takes exactly that object out of
\* the stack; the others stay, in the order they had
closeRemovesOnlyThat ==
  (pc = "sweep" /\ i <= Len(markers) /\ ~markers[i].open) =>
    /\ Range(stack') = Range(stack) \ {markers[i].issue}
    /\ Cardinality(Range(stack')) = Len(stack')
    /\ \A p, q \in 1..Len(stack') :
         p < q => posIn(stack, stack'[p]) < posIn(stack, stack'[q])

\* after a crossing pair's first issue has closed, the text up to the end of
\* the second carries the second issue's type and tip
crossingShown ==
  pc = "done" =>
    \A a, b \in Range(issues) :
      crossing(a, b) =>
        \A x \in 0..(Len(text) - 1) :
          (a.end <= x /\ x < b.end /\ onlyOpen(a, b, x))
            => charTags(segs)[x + 1] = tagOf(b)

\* C4: closing is by identity: a close marker removes exactly its own issue
\* from the stack and keeps the relative order of the rest, so for crossing
\* issues A and B the segment from A's end to B's end is tagged with B.
C4_CloseByIdentity == [][closeRemovesOnlyThat]_vars /\ []crossingShown

\* place of an issue's open and of its close marker in the sorted markers
openPos(issue) ==
  CHOOSE p \in 1..Len(markers) : markers[p].open /\ markers[p].issue = issue

closePos(issue) ==
  CHOOSE p \in 1..Len(markers) : ~markers[p].open /\ markers[p].issue = issue

\* C4 witness: three issues lie in the text; C opens after X and before Z and
\* is the first of them to close, so its close took it from between X and Z
\* on the stack; C and Z cross, and the character at C's end, where X and Z
\* are still open, carries Z's type and tip.
C4_Witness ==
  /\ pc = "done"
  /\ Len(issues) = 3
  /\ \A a \in Range(issues) : inRange(Len(text), a)
  /\ \E x, c, z \in Range(issues) :
       /\ openPos(x) < openPos(c) /\ openPos(c) < openPos(z)
       /\ openPos(z) < closePos(c)
       /\ closePos(c) < closePos(x) /\ closePos(c) < closePos(z)
       /\ crossing(c, z)
       /\ c.end < x.end
       /\ charTags(segs)[c.end + 1] = tagOf(z)

\* ascending positions, and at one position every open before every close
markersOrdered ==
  \A p, q \in 1..Len(markers) :
    p < q => /\ markers[p].idx <= markers[q].idx
             /\ markers[p].idx = markers[q].idx
                  => ~(~markers[p].open /\ markers[q].open)

\* b starts where a ends, both inside the text
touching(a, b) ==
  0 <= a.start /\ a.start < a.end /\ a.end = b.start /\ b.start < b.end
  /\ b.end <= Len(text)

segOf(from, to, tag) ==
  [text |-> SubSeq(text, from + 1, to), type |-> tag.type, tip |-> tag.tip]

touchingOutput(a, b) ==
  (IF a.start > 0 THEN <<segOf(0, a.start, plainTag)>> ELSE <<>>)
  \o <<segOf(a.start, a.end, tagOf(a)), segOf(b.start, b.end, tagOf(b))>>
  \o (IF b.end < Len(text) THEN <<segOf(b.end, Len(text), plainTag)>> ELSE <<>>)

\* C5: the sorted markers ascend by position with opens before closes at one
\* position, and two touching issues A [a,b) and B [b,c) alone give the
\* segment [a,b) tagged A directly followed by [b,c) tagged B.
C5_OrderAndTouching ==
  /\ pc \in {"sweep", "done"} => markersOrdered
  /\ (pc = "done" /\ Len(issues) = 2) =>
       \A a, b \in Range(issues) : touching(a, b) => segs = touchingOutput(a, b)

\* C5 witness: B comes first in the input, A [0,1) touches B [1,2), and the
\* output is A's segment, B's segment and the plain remainder.
C5_Witness ==
  /\ pc = "done"
  /\ Len(issues) = 2
  /\ touching(issues[2], issues[1])
  /\ issues[2].start = 0
  /\ Len(segs) = 3
  /\ segs[1].type = issues[2].type
  /\ segs[2].type = issues[1].type
  /\ segs[3].type = "plain"

\* a zero-width issue at a position of the text
degenerate(a) == a.start = a.end /\ 0 <= a.start /\ a.start <= Len(text)

\* C6 as stated: a zero-width issue anywhere in 0..length(text) leaves the
\* returned sequence of segments unchanged.
C6_DegenerateLeavesSegments ==
  pc = "done" =>
    \A k \in 1..Len(issues) :
      degenerate(issues[k]) => segs = buildSegments(text, without(issues, k))

\* C6 amended: a zero-width issue at p in 0..length(text) tags no segment
\* and leaves the type and tip of every character unchanged; its position
\* becomes a segment boundary, so a segment that had p strictly inside it is
\* returned as two segments with that segment's type and tip.
C6_DegenerateKeepsCharTags ==
  pc = "done" =>
    \A k \in 1..Len(issues) :
      degenerate(issues[k]) =>
        LET base == buildSegments(text, without(issues, k))
        IN  /\ \A s \in 1..Len(segs) : segs[s].type # issues[k].type
            /\ charTags(segs) = charTags(base)
            /\ concatTexts(segs) = concatTexts(base)
            /\ Len(text) > 0 =>
                 boundaries(segs) = boundaries(base) \cup {issues[k].start}

\* C6 witness: a zero-width issue strictly inside the only other issue,
\* whose segment comes out in two parts with the same type and tip.
C6_Witness ==
  /\ pc = "done"
  /\ Len(issues) = 2
  /\ degenerate(issues[2])
  /\ issues[1].start = 0 /\ issues[1].end = Len(text)
  /\ 0 < issues[2].start /\ issues[2].start < Len(text)
  /\ Len(segs) = 2
  /\ segs[1].type = issues[1].type /\ segs[2].type = issues[1].type
  /\ segs[1].tip = issues[1].tip /\ segs[2].tip = issues[1].tip
  /\ Len(buildSegments(text, without(issues, 2))) = 1

\* C7: an issue with end < start tags no segment of the output, the text
\* after the last marker included.
C7_InvertedNeverShown ==
  pc = "done" =>
    \A a \in Range(issues) :
      a.end < a.start => \A s \in 1..Len(segs) : segs[s].type # a.type

\* C8: for a non-empty text the offsets at which the returned segments begin
\* or end are exactly 0, length(text) and the issues' starts and ends
\* clamped into [0, length(text)].
C8_BoundariesAreClampedOffsets ==
  (pc = "done" /\ Len(text) > 0) =>
    boundaries(segs) =
      {0, Len(text)}
      \cup { clamp(Len(text), a.start) : a \in Range(issues) }
      \cup { clamp(Len(text), a.end) : a \in Range(issues) }

\* C8 witness: one issue starts before the text, one ends beyond it, and
\* the output has a boundary strictly inside the text.
C8_Witness ==
  /\ pc = "done"
  /\ Len(text) > 0
  /\ \E a \in Range(issues) : a.start < 0 /\ 0 < a.end
  /\ \E a \in Range(issues) : a.end > Len(text) /\ a.start < Len(text)
  /\ \E x \in boundaries(segs) : 0 < x /\ x < Len(text)

\* the upstream call of the last submit failed: no answer, a status that is
\* not ok, a body that is no JSON, or JSON without the EvalResult fields
upstreamFailed(resp) ==
  \/ resp.kind = "rejected"
  \/ /\ resp.kind = "response"
     /\ (~resp.ok \/ ~resp.json \/ ~hasShape(resp.data))

\* C9: once onSubmit has ended after a failed upstream call, submitting is
\* false, the error notice is set and result is mockEvaluate of the submitted
\* text, with its issues and topTips; the preview never gets undefined issues.
C9_UpstreamFailureFallsBack ==
  (call.at = "idle" /\ upstreamFailed(call.r)) =>
    /\ app.submitting = FALSE
    /\ app.error # NoError
    /\ app.result = mockEvaluate(call.text)
    /\ hasShape(app.result)
    /\ issues = app.result.issues

\* C10: when every issue has 0 <= start <= end <= length(text), the stack is
\* empty after the last marker, and a remainder segment is plain, without tip.
C10_StackEmptyAfterSweep ==
  (\A a \in Range(issues) : inRange(Len(text), a)) =>
    /\ (pc = "sweep" /\ i > Len(markers)) => stack = <<>>
    /\ pc = "done" => stack = <<>>
    /\ (pc = "done" /\ cursor < Len(text)) =>
         /\ segs # <<>>
         /\ segs[Len(segs)] = segOf(cursor, Len(text), plainTag)

\* C10 witness: issues inside the text, one covering a part of it and one of
\* zero width, have all been closed and a plain remainder follows them.
C10_Witness ==
  /\ pc = "done"
  /\ Len(issues) >= 2
  /\ \A a \in Range(issues) : inRange(Len(text), a)
  /\ \E a \in Range(issues) : a.start < a.end
  /\ \E a \in Range(issues) : a.start = a.end
  /\ 0 < cursor /\ cursor < Len(text)
  /\ segs[Len(segs)].type = "plain"

\* C11: whenever a result is shown and buildSegments gets issues from it (the
\* text is not empty, so the preview is built), those issues were computed for
\* the text now in the text state: the text the last onSubmit sent, and mocked
\* on failure, is the current text.
C11_IssuesBelongToCurrentText ==
  (app.result # Null /\ ~app.crashed /\ text # <<>> /\ issues # <<>>)
    => text = call.text

====
